---- MODULE Spec2Model ----
(***************************************************************************)
(* Conversation orchestration and itinerary reconciliation of the trip     *)
(* planner: travel_chat (backend/app.py), ItineraryManager                 *)
(* (backend/agents/iternerary_manager.py) and ChatService.process_message  *)
(* (backend/agents/chat_agent.py).                                         *)
(*                                                                         *)
(* Python values are tagged records (PyNone, Str, Num, Bool, Dict); text   *)
(* that the code upper-cases or searches is a sequence of one-character    *)
(* strings.  The Suggestion table is the pair (db, pending): the committed *)
(* rows and the rows added to the open session, both in creation order.    *)
(* Queries autoflush, so they read db \o pending.                          *)
(***************************************************************************)
EXTENDS Integers, Sequences, FiniteSets, TLC

VARIABLES
    prefs,        \* Conversation.preferences, per conversation: slot -> value
    convDest,     \* Conversation.destination (denormalized), per conversation
    convBudget,   \* Conversation.budget (denormalized), per conversation
    convStart,    \* Conversation.start_date (denormalized), per conversation
    db,           \* committed TravelSuggestion rows, in creation order
    pending,      \* rows added to the open session and not yet committed
    msgs,         \* committed Message rows, in creation order
    pendingMsgs,  \* messages added to the open session
    mgr,          \* the ItineraryManager of the current request
    turn,         \* the process_message call in progress
    last,         \* what the last operation did (observation only)
    reqs          \* the requests that run concurrently, each with its session

vars == <<prefs, convDest, convBudget, convStart, db, pending, msgs,
          pendingMsgs, mgr, turn, last, reqs>>

----------------------------------------------------------------------------
(* Bounds                                                                  *)

MaxRows == 2        \* Suggestion rows (committed and pending together)
MaxMsgs == 2        \* Message rows (committed and pending together)
MaxList == 2        \* hotels in one list handed to add_hotel
MaxShown == 3       \* entries of the manager's shops attribute
MaxBatch == 2       \* tool invocations in one model response

----------------------------------------------------------------------------
(* Python values                                                           *)

PyNone == [k |-> "none", s |-> <<>>, n |-> 0]
Str(s) == [k |-> "str", s |-> s, n |-> 0]
Num(n) == [k |-> "num", s |-> <<>>, n |-> n]
Bool(b) == [k |-> "bool", s |-> <<>>, n |-> IF b THEN 1 ELSE 0]
\* a dict, a list or another JSON value, of which only the size matters
Dict(n) == [k |-> "dict", s |-> <<>>, n |-> n]

\* Python truthiness: None, "", 0, False and empty containers are falsy
Truthy(v) ==
    CASE v.k = "none" -> FALSE
      [] v.k = "str"  -> v.s # <<>>
      [] v.k = "num"  -> v.n # 0
      [] v.k = "bool" -> v.n = 1
      [] OTHER        -> v.n > 0

\* a or b
PyOr(a, b) == IF Truthy(a) THEN a ELSE b

----------------------------------------------------------------------------
(* Text: str.upper() and the `in` operator on strings                      *)

LowerCase == <<"a","b","c","d","e","f","g","h","i","j","k","l","m",
               "n","o","p","q","r","s","t","u","v","w","x","y","z">>
UpperCase == <<"A","B","C","D","E","F","G","H","I","J","K","L","M",
               "N","O","P","Q","R","S","T","U","V","W","X","Y","Z">>

UpperChar(c) ==
    IF \E i \in 1..26 : LowerCase[i] = c
    THEN UpperCase[CHOOSE i \in 1..26 : LowerCase[i] = c]
    ELSE c

Upper(s) == [i \in 1..Len(s) |-> UpperChar(s[i])]

\* needle in hay
Contains(hay, needle) ==
    \E i \in 0..(Len(hay) - Len(needle)) :
        \A j \in 1..Len(needle) : hay[i + j] = needle[j]

NewYork == <<"N","e","w"," ","Y","o","r","k">>
Paris   == <<"P","a","r","i","s">>
NYC     == <<"N","Y","C">>
york    == <<"y","o","r","k">>

NA      == <<"N","/","A">>

\* dict.get(key, default)
Get(d, key, default) == IF key \in DOMAIN d THEN d[key] ELSE default

Convs == {1, 2}

----------------------------------------------------------------------------
(* The Suggestion table as a session sees it                               *)

\* a query autoflushes the session: committed rows, then the pending ones
AllRows == db \o pending

\* TravelSuggestion.query.filter_by(conversation_id=c).order_by(created_at):
\* the positions (row ids) of conversation c's rows, in creation order
RECURSIVE IdsFrom(_, _, _)
IdsFrom(rows, c, i) ==
    IF i > Len(rows) THEN <<>>
    ELSE IF rows[i].conv = c THEN <<i>> \o IdsFrom(rows, c, i + 1)
    ELSE IdsFrom(rows, c, i + 1)

RowIds(rows, c) == IdsFrom(rows, c, 1)

----------------------------------------------------------------------------
(* ItineraryManager                                                        *)

None == <<>>
Some(x) == <<x>>

\* _format_suggestion: the dict the agent sees for row s with id i
_format_suggestion(i, s) ==
    [id |-> i, type |-> s.type, title |-> s.title,
     description |-> s.description,
     price |-> IF s.price.k # "none" THEN s.price ELSE Num(-10),
     booking_url |-> s.booking_url, location |-> s.location]

NoManager ==
    [alive |-> FALSE, conv |-> 1, journey_to |-> None, journey_from |-> None,
     stays |-> <<>>, shops |-> <<>>, activities |-> Dict(0), raised |-> FALSE]

\* x.upper() raises AttributeError unless x is a string
CanUpper(v) == v.k = "str"

\* the two containment rules of load_from_db, with Python's short circuit:
\* "raise" when .upper() is applied to a trip slot that is no string
Rule(tripA, tripB, fa, fb) ==
    IF ~(Truthy(tripA) /\ Truthy(tripB)) THEN "no"
    ELSE IF ~CanUpper(tripA) THEN "raise"
    ELSE IF ~Contains(Upper(tripA.s), fa) THEN "no"
    ELSE IF ~CanUpper(tripB) THEN "raise"
    ELSE IF Contains(Upper(tripB.s), fb) THEN "yes" ELSE "no"

\* LoadFlight whose default branch lacks the test `not self.journey_to`
LoadFlightLastWins(m, i, s, trip_origin, trip_destination) ==
    LET fo == Get(s.location, "origin", Str(NA))
        fd == Get(s.location, "destination", Str(NA))
    IN  IF ~CanUpper(fo) \/ ~CanUpper(fd) THEN [m EXCEPT !.raised = TRUE]
        ELSE
        LET outbound == Rule(trip_origin, trip_destination, Upper(fo.s), Upper(fd.s))
            inbound  == Rule(trip_destination, trip_origin, Upper(fo.s), Upper(fd.s))
        IN  IF outbound = "raise" THEN [m EXCEPT !.raised = TRUE]
            ELSE IF outbound = "yes"
                 THEN [m EXCEPT !.journey_to = Some(_format_suggestion(i, s))]
            ELSE IF inbound = "raise" THEN [m EXCEPT !.raised = TRUE]
            ELSE IF inbound = "yes"
                 THEN [m EXCEPT !.journey_from = Some(_format_suggestion(i, s))]
            ELSE [m EXCEPT !.journey_to = Some(_format_suggestion(i, s))]

\* the flight branch of the loop of load_from_db (lines 53-65)
LoadFlight(m, i, s, trip_origin, trip_destination) ==
    LET fo == Get(s.location, "origin", Str(NA))
        fd == Get(s.location, "destination", Str(NA))
    IN  IF ~CanUpper(fo) \/ ~CanUpper(fd) THEN [m EXCEPT !.raised = TRUE]
        ELSE
        LET flight_origin == Upper(fo.s)
            flight_dest   == Upper(fd.s)
            outbound == Rule(trip_origin, trip_destination, flight_origin, flight_dest)
            inbound  == Rule(trip_destination, trip_origin, flight_origin, flight_dest)
        IN  IF outbound = "raise" THEN [m EXCEPT !.raised = TRUE]
            ELSE IF outbound = "yes"
                 THEN [m EXCEPT !.journey_to = Some(_format_suggestion(i, s))]
            ELSE IF inbound = "raise" THEN [m EXCEPT !.raised = TRUE]
            ELSE IF inbound = "yes"
                 THEN [m EXCEPT !.journey_from = Some(_format_suggestion(i, s))]
            ELSE IF m.journey_to = None
                 THEN [m EXCEPT !.journey_to = Some(_format_suggestion(i, s))]
            ELSE m

\* one iteration of the loop of load_from_db (lines 47-65)
LoadRow(m, i, s, trip_origin, trip_destination) ==
    IF s.type = "hotel" THEN [m EXCEPT !.stays = Append(@, _format_suggestion(i, s))]
    ELSE IF s.type = "shop" THEN [m EXCEPT !.shops = Append(@, _format_suggestion(i, s))]
    ELSE IF s.type = "flight" THEN LoadFlight(m, i, s, trip_origin, trip_destination)
    ELSE m

\* the loop: an exception leaves the attributes as they are at that row
RECURSIVE LoadLoop(_, _, _, _, _)
LoadLoop(m, rows, ids, trip_origin, trip_destination) ==
    IF ids = <<>> \/ m.raised THEN m
    ELSE LoadLoop(LoadRow(m, Head(ids), rows[Head(ids)], trip_origin, trip_destination),
                  rows, Tail(ids), trip_origin, trip_destination)

\* load_from_db (lines 29-65) on manager m, reading the table `rows` and the
\* preferences p of the manager's conversation (self.prefs).  self.shops is
\* not among the attributes the method resets.
load_from_db(m, rows, p) ==
    LoadLoop([m EXCEPT !.stays = <<>>, !.journey_to = None, !.journey_from = None,
                       !.raised = FALSE],
             rows, RowIds(rows, m.conv),
             Get(p, "origin", PyNone), Get(p, "destination", PyNone))

\* to_dict (lines 79-89)
to_dict(m) ==
    [journey_to |-> m.journey_to, journey_from |-> m.journey_from,
     stays |-> m.stays, activities |-> m.activities]

----------------------------------------------------------------------------
(* ItineraryManager: the writes                                            *)

\* a TravelSuggestion row
Row(c, type, title, description, price, rating, image_url, booking_url, location) ==
    [conv |-> c, type |-> type, title |-> title, description |-> description,
     price |-> price, rating |-> rating, image_url |-> image_url,
     booking_url |-> booking_url, location |-> location]

\* a rating halved whatever its sign
HalfRatingSigned(r) == Num(r.n * 5)

\* hotel_data['rating'] is a review score in tenths of a point (84 is 8.4);
\* the stored rating is in hundredths of a point (420 is 4.20)
HalfRating(r) == IF r.n > 0 THEN Num(r.n * 5) ELSE Num(0)

\* the image picked by _save_hotel_to_db (lines 164-168)
HotelImage(hotel_data) ==
    LET image_url == Get(hotel_data, "room_photo_url", Str(NA))
        hotel_photos == Get(hotel_data, "hotel_photo_url", <<>>)
    IN  IF image_url = Str(NA) \/ ~Truthy(image_url)
        THEN IF Len(hotel_photos) > 0 THEN hotel_photos[1] ELSE image_url
        ELSE image_url

\* a _save_hotel_to_db that skips a hotel whose name is stored already
_save_hotel_once(c, session, hotel_data) ==
    IF \E i \in 1..Len(session) :
          session[i].type = "hotel"
            /\ session[i].title = Get(hotel_data, "hotel_name", PyNone)
    THEN [session |-> session, raised |-> FALSE]
    ELSE [session |-> Append(session,
              Row(c, "hotel", Get(hotel_data, "hotel_name", PyNone),
                  Get(hotel_data, "hotel_description", PyNone),
                  Get(hotel_data, "price", PyNone),
                  HalfRating(Get(hotel_data, "rating", Num(0))),
                  HotelImage(hotel_data),
                  Get(hotel_data, "booking_url", PyNone),
                  [address |-> Get(hotel_data, "destination", PyNone)])),
          raised |-> FALSE]

\* _save_hotel_to_db (lines 157-183): the session after db.session.add, or
\* a TypeError when the rating cannot be compared with 0
_save_hotel_to_db(c, session, hotel_data) ==
    LET rating_10_point == Get(hotel_data, "rating", Num(0))
    IN  IF rating_10_point.k # "num"
        THEN [session |-> session, raised |-> TRUE]
        ELSE [session |-> Append(session,
                  Row(c, "hotel", Get(hotel_data, "hotel_name", PyNone),
                      Get(hotel_data, "hotel_description", PyNone),
                      Get(hotel_data, "price", PyNone),
                      HalfRating(rating_10_point),
                      HotelImage(hotel_data),
                      Get(hotel_data, "booking_url", PyNone),
                      [address |-> Get(hotel_data, "destination", PyNone)])),
              raised |-> FALSE]

\* _save_flight_to_db (lines 185-202)
_save_flight_to_db(c, session, flight_data) ==
    Append(session,
        Row(c, "flight", Get(flight_data, "title", PyNone),
            Get(flight_data, "description", PyNone),
            Get(flight_data, "price", PyNone), PyNone,
            Get(flight_data, "image_url", PyNone),
            Get(flight_data, "booking_url", PyNone),
            [origin |-> Get(flight_data, "origin_code", PyNone),
             destination |-> Get(flight_data, "destination_code", PyNone)]))

\* ExistingShop without the autoflush: the query sees committed rows only
ExistingShopCommitted(rows, c, shop_name) ==
    \E i \in 1..Len(db) :
        db[i].conv = c /\ db[i].type = "shop" /\ db[i].title = shop_name

\* the duplicate check of _save_shop_to_db (lines 217-221): the query
\* filter_by(conversation_id, type='shop', title=shop_name).first()
ExistingShop(rows, c, shop_name) ==
    \E i \in 1..Len(rows) :
        rows[i].conv = c /\ rows[i].type = "shop" /\ rows[i].title = shop_name

\* a _save_shop_to_db without the checks of lines 207-214
_save_shop_unchecked(c, committed, session, shop_data) ==
    LET shop_name == IF DOMAIN shop_data = {} THEN PyNone
                     ELSE Get(shop_data, "name", PyNone)
    IN  IF ExistingShop(committed \o session, c, shop_name) THEN session
        ELSE Append(session,
               Row(c, "shop", shop_name, PyNone, PyNone, PyNone, PyNone, PyNone,
                   [address |-> PyNone]))

\* _save_shop_to_db (lines 205-253): the session afterwards, given the
\* committed rows
_save_shop_to_db(c, committed, session, shop_data) ==
    IF DOMAIN shop_data = {} \/ Truthy(Get(shop_data, "error", PyNone)) THEN session
    ELSE LET shop_name == Get(shop_data, "name", PyNone)
         IN  IF ~Truthy(shop_name) THEN session
             ELSE IF ExistingShop(committed \o session, c, shop_name) THEN session
             ELSE Append(session,
                    Row(c, "shop", shop_name,
                        PyOr(Get(shop_data, "full_address", PyNone),
                             Get(shop_data, "address_line2", PyNone)),
                        PyNone, PyNone, PyNone,
                        Get(shop_data, "website", PyNone),
                        [address |-> Get(shop_data, "full_address", PyNone),
                         lat |-> Get(shop_data, "lat", PyNone),
                         lon |-> Get(shop_data, "lon", PyNone),
                         phone |-> Get(shop_data, "phone", PyNone),
                         opening_hours |-> Get(shop_data, "opening_hours", PyNone),
                         city |-> Get(shop_data, "city", PyNone),
                         postcode |-> Get(shop_data, "postcode", PyNone),
                         street |-> Get(shop_data, "street", PyNone)]))

----------------------------------------------------------------------------
(* Inputs                                                                  *)

Ritz   == <<"R","i","t","z">>
Ibis   == <<"I","b","i","s">>
Market == <<"M","a","r","k","e","t">>
Bakery == <<"B","a","k","e","r","y">>
Rome   == <<"R","o","m","e">>
Photo1 == <<"p","1">>
Photo2 == <<"p","2">>

\* hotel records as search_hotels builds them (booking_agent.py lines 45-59)
HotelRitz ==
    [destination |-> Str(Paris), hotel_name |-> Str(Ritz),
     hotel_description |-> Str(Ritz), hotel_photo_url |-> <<Str(Photo1)>>,
     rating |-> Num(84), room_photo_url |-> Str(NA),
     booking_url |-> Str(Ritz), price |-> Num(300)]
HotelIbis ==
    [destination |-> Str(Paris), hotel_name |-> Str(Ibis),
     hotel_description |-> Str(NA), hotel_photo_url |-> <<>>,
     rating |-> Num(0), room_photo_url |-> Str(Photo2),
     booking_url |-> Str(Ibis), price |-> Num(0)]
HotelRecords == {HotelRitz, HotelIbis}

\* flight records: a title and the two city codes; FlightError is the record
\* of a failed search, which carries neither code
Flight(o, d) == [title |-> Str(o \o d), origin_code |-> Str(o),
                 destination_code |-> Str(d), price |-> Num(200)]
FlightError == [error |-> Str(NA)]
FlightRecords ==
    {Flight(york, Paris), Flight(Paris, york), Flight(NYC, Paris),
     Flight(Paris, NYC), FlightError}

\* point-of-interest records of search_shops
ShopMarket == [name |-> Str(Market), full_address |-> Str(Rome), city |-> Str(Rome)]
ShopMarket2 == [name |-> Str(Market), city |-> Str(Paris)]
ShopBakery == [name |-> Str(Bakery), city |-> Str(Rome)]
ShopNoName == [city |-> Str(Rome)]
ShopError  == [name |-> Str(Market), error |-> Str(NA)]
ShopEmpty  == <<>>
ShopRecords == {ShopMarket, ShopMarket2, ShopBakery, ShopNoName, ShopError, ShopEmpty}

Slots == {"origin", "destination", "number_of_travelers", "weather_preference",
          "activities", "budget", "budget_allocation", "arrival_date",
          "departure_date", "date_flexibility", "confirmed"}

NoPrefs == [s \in Slots |-> PyNone]
Trip(o, d) == [NoPrefs EXCEPT !["origin"] = o, !["destination"] = d]

\* the records the providers return for conversation c: the second
\* conversation is there for the conversation_id filters only
HotelsFor(c) == IF c = 1 THEN HotelRecords ELSE {}
FlightsFor(c) == IF c = 1 THEN FlightRecords ELSE {Flight(york, Paris)}
ShopsFor(c) == IF c = 1 THEN ShopRecords ELSE {ShopMarket}

TripChoices ==
    {Trip(Str(NewYork), Str(Paris)), Trip(PyNone, PyNone), Trip(Str(NewYork), PyNone)}

\* lists of at most MaxList hotel records
RECURSIVE ListsOf(_, _)
ListsOf(S, n) ==
    IF n = 0 THEN {<<>>}
    ELSE ListsOf(S, n - 1) \cup
         {Append(l, x) : l \in {y \in ListsOf(S, n - 1) : Len(y) = n - 1}, x \in S}

\* the tools the model can name (chat_agent.py lines 26-97) and a name that
\* is none of them
ToolNames == {"search_hotels", "search_flights", "get_activity_recommendations",
              "search_shops", "search_leisure", "book_taxi"}
Batches == ListsOf(ToolNames, MaxBatch)

UserTexts == {<<"h","i">>}

----------------------------------------------------------------------------
(* The request cycle around ItineraryManager                               *)

Message(c, role, content) == [conv |-> c, role |-> role, content |-> content]

MaxRequests == 2    \* requests in flight at once

Requesters == 1..MaxRequests
IdleRequest == [pc |-> "idle"]
NoRequests == [r \in Requesters |-> IdleRequest]

\* calls counts the calls of the main model in the turn
IdleTurn == [pc |-> "idle", batch |-> <<>>, calls |-> 0]

Did(op, status, arg) == [op |-> op, status |-> status, arg |-> arg]

NShops(rows, c) ==
    Cardinality({i \in 1..Len(rows) : rows[i].conv = c /\ rows[i].type = "shop"})

\* room for one more load_from_db: it appends every shop row to self.shops
CanLoad(rows) == Len(mgr.shops) + NShops(rows, mgr.conv) <= MaxShown

Init ==
    /\ prefs \in {[c \in Convs |-> IF c = 1 THEN p ELSE Trip(Str(Paris), Str(NewYork))] :
                    p \in TripChoices}
    /\ convDest = [c \in Convs |-> prefs[c]["destination"]]
    /\ convBudget = [c \in Convs |-> PyNone]
    /\ convStart = [c \in Convs |-> PyNone]
    /\ db = <<>>
    /\ pending = <<>>
    /\ msgs = <<>>
    /\ pendingMsgs = <<>>
    /\ mgr = NoManager
    /\ turn = IdleTurn
    /\ last = Did("none", "ok", <<>>)
    /\ reqs = NoRequests

\* ChatService.__init__ builds the manager of the request; an exception of
\* the first load_from_db leaves the request without a manager
NewManager(c) ==
    /\ ~mgr.alive
    /\ LET m == load_from_db([NoManager EXCEPT !.alive = TRUE, !.conv = c],
                             AllRows, prefs[c])
       IN  IF m.raised
           THEN /\ mgr' = NoManager
                /\ last' = Did("init", "raised", <<>>)
           ELSE /\ mgr' = m
                /\ last' = Did("init", "ok", <<>>)
    /\ UNCHANGED <<reqs, prefs, convDest, convBudget, convStart, db, pending, msgs,
                   pendingMsgs, turn>>

\* a request that ends with an exception and its session committed
FailCommits(op, arg) ==
    /\ db' = db \o pending
    /\ msgs' = msgs \o pendingMsgs
    /\ pending' = <<>>
    /\ pendingMsgs' = <<>>
    /\ mgr' = NoManager
    /\ turn' = IdleTurn
    /\ last' = Did(op, "raised", arg)
    /\ UNCHANGED <<reqs, prefs, convDest, convBudget, convStart>>

\* the request ends with an exception: the session is rolled back
Fail(op, arg) ==
    /\ pending' = <<>>
    /\ pendingMsgs' = <<>>
    /\ mgr' = NoManager
    /\ turn' = IdleTurn
    /\ last' = Did(op, "raised", arg)
    /\ UNCHANGED <<reqs, prefs, convDest, convBudget, convStart, db, msgs>>

\* a call of load_from_db on the live manager
LoadFromDb ==
    /\ mgr.alive /\ turn.pc = "idle"
    /\ CanLoad(AllRows)
    /\ LET m == load_from_db(mgr, AllRows, prefs[mgr.conv])
       IN  IF m.raised THEN Fail("load", <<>>)
           ELSE /\ mgr' = m
                /\ last' = Did("load", "ok", <<>>)
                /\ UNCHANGED <<reqs, prefs, convDest, convBudget, convStart, db, pending,
                               msgs, pendingMsgs, turn>>

\* the reload that ends add_hotel and add_flight; its exception is caught
Reloaded(rows) ==
    [load_from_db(mgr, rows, prefs[mgr.conv]) EXCEPT !.raised = FALSE]

ReloadStatus(rows) ==
    IF load_from_db(mgr, rows, prefs[mgr.conv]).raised THEN "error" ELSE "success"

\* add_hotel with one record (lines 119-128)
AddHotel(hotel_data) ==
    /\ mgr.alive /\ turn.pc = "idle"
    /\ Len(AllRows) < MaxRows
    /\ LET r == _save_hotel_to_db(mgr.conv, pending, hotel_data)
       IN  /\ pending' = r.session
           /\ CanLoad(db \o r.session)
           /\ IF r.raised
              THEN /\ mgr' = mgr
                   /\ last' = Did("add_hotel", "error", <<>>)
              ELSE /\ mgr' = Reloaded(db \o r.session)
                   /\ last' = Did("add_hotel",
                                  ReloadStatus(db \o r.session), <<>>)
    /\ UNCHANGED <<reqs, prefs, convDest, convBudget, convStart, db, msgs, pendingMsgs, turn>>

\* the loop of add_hotel over a list (lines 105-109): the session after the
\* records saved before the first exception
RECURSIVE SaveHotels(_, _, _)
SaveHotels(c, session, hotels) ==
    IF hotels = <<>> THEN [session |-> session, raised |-> FALSE]
    ELSE LET r == _save_hotel_to_db(c, session, Head(hotels))
         IN  IF r.raised THEN r
             ELSE IF Get(Head(hotels), "price", Num(0)).k # "num"
                  THEN [session |-> r.session, raised |-> TRUE]
             ELSE SaveHotels(c, r.session, Tail(hotels))

\* add_hotel with a list of records (lines 99-118)
AddHotelList(hotels) ==
    /\ mgr.alive /\ turn.pc = "idle"
    /\ Len(AllRows) + Len(hotels) <= MaxRows
    /\ LET r == SaveHotels(mgr.conv, pending, hotels)
       IN  /\ pending' = r.session
           /\ CanLoad(db \o r.session)
           /\ IF r.raised
              THEN /\ mgr' = mgr
                   /\ last' = Did("add_hotels", "error", <<>>)
              ELSE /\ mgr' = Reloaded(db \o r.session)
                   /\ last' = Did("add_hotels",
                                  ReloadStatus(db \o r.session), <<>>)
    /\ UNCHANGED <<reqs, prefs, convDest, convBudget, convStart, db, msgs, pendingMsgs, turn>>

\* add_flight (lines 136-155)
AddFlight(flight_data) ==
    /\ mgr.alive /\ turn.pc = "idle"
    /\ Len(AllRows) < MaxRows
    /\ LET session == _save_flight_to_db(mgr.conv, pending, flight_data)
       IN  /\ pending' = session
           /\ CanLoad(db \o session)
           /\ mgr' = Reloaded(db \o session)
           /\ last' = Did("add_flight", ReloadStatus(db \o session), <<>>)
    /\ UNCHANGED <<reqs, prefs, convDest, convBudget, convStart, db, msgs, pendingMsgs, turn>>

\* _save_hotel_to_db called on the manager, as process_message does (line 222)
SaveHotel(hotel_data) ==
    /\ mgr.alive /\ turn.pc = "idle"
    /\ Len(AllRows) < MaxRows
    /\ LET r == _save_hotel_to_db(mgr.conv, pending, hotel_data)
       IN  IF r.raised THEN Fail("save_hotel", <<>>)
           ELSE /\ pending' = r.session
                /\ last' = Did("save_hotel", "ok", <<>>)
                /\ UNCHANGED <<reqs, prefs, convDest, convBudget, convStart, db, msgs,
                               pendingMsgs, mgr, turn>>

\* _save_flight_to_db called on the manager (line 238)
SaveFlight(flight_data) ==
    /\ mgr.alive /\ turn.pc = "idle"
    /\ Len(AllRows) < MaxRows
    /\ pending' = _save_flight_to_db(mgr.conv, pending, flight_data)
    /\ last' = Did("save_flight", "ok", <<>>)
    /\ UNCHANGED <<reqs, prefs, convDest, convBudget, convStart, db, msgs, pendingMsgs,
                   mgr, turn>>

\* _save_shop_to_db called on the manager (line 262)
SaveShop(shop_data) ==
    /\ mgr.alive /\ turn.pc = "idle"
    /\ Len(AllRows) < MaxRows
    /\ pending' = _save_shop_to_db(mgr.conv, db, pending, shop_data)
    /\ last' = Did("save_shop",
                   IF pending' # pending THEN "added"
                   ELSE IF ExistingShop(AllRows, mgr.conv, Get(shop_data, "name", PyNone))
                        THEN "skipped" ELSE "rejected",
                   <<>>)
    /\ UNCHANGED <<reqs, prefs, convDest, convBudget, convStart, db, msgs, pendingMsgs,
                   mgr, turn>>

\* a commit that replaces the stored rows by those of the session
CommitReplaces ==
    /\ mgr.alive /\ turn.pc = "idle"
    /\ db' = pending
    /\ msgs' = pendingMsgs
    /\ pending' = <<>>
    /\ pendingMsgs' = <<>>
    /\ mgr' = NoManager
    /\ last' = Did("commit", "ok", <<>>)
    /\ UNCHANGED <<reqs, prefs, convDest, convBudget, convStart, turn>>

\* db.session.commit() at the end of the request
Commit ==
    /\ mgr.alive /\ turn.pc = "idle"
    /\ db' = db \o pending
    /\ msgs' = msgs \o pendingMsgs
    /\ pending' = <<>>
    /\ pendingMsgs' = <<>>
    /\ mgr' = NoManager
    /\ last' = Did("commit", "ok", <<>>)
    /\ UNCHANGED <<reqs, prefs, convDest, convBudget, convStart, turn>>

\* the request ends without a commit
Rollback ==
    /\ mgr.alive /\ turn.pc = "idle"
    /\ pending # <<>>
    /\ pending' = <<>>
    /\ pendingMsgs' = <<>>
    /\ mgr' = NoManager
    /\ last' = Did("rollback", "ok", <<>>)
    /\ UNCHANGED <<reqs, prefs, convDest, convBudget, convStart, db, msgs, turn>>

----------------------------------------------------------------------------
(* ChatService.process_message as the source has it                        *)

\* lines 172-174: the user's message joins the session
PMBegin(content) ==
    /\ mgr.alive /\ turn.pc = "idle"
    /\ Len(msgs) + Len(pendingMsgs) < MaxMsgs
    /\ pendingMsgs' = Append(pendingMsgs, Message(mgr.conv, "user", content))
    /\ turn' = [pc |-> "generate", batch |-> <<>>, calls |-> 0]
    /\ last' = Did("begin", "ok", <<>>)
    /\ UNCHANGED <<reqs, prefs, convDest, convBudget, convStart, db, pending, msgs, mgr>>

\* line 176: the model answers with the tool invocations `batch` (none for
\* a plain text answer)
PMGenerate(batch) ==
    /\ turn.pc = "generate"
    /\ turn' = [pc |-> "leisure", batch |-> batch, calls |-> turn.calls + 1]
    /\ last' = Did("generate", "ok", batch)
    /\ UNCHANGED <<reqs, prefs, convDest, convBudget, convStart, db, pending, msgs,
                   pendingMsgs, mgr>>

\* line 176: the model call raises
PMGenerateRaises ==
    /\ turn.pc = "generate"
    /\ Fail("process_message",
            [batch |-> <<>>, leisure |-> "none", calls |-> turn.calls + 1,
             results |-> <<>>])

\* what search_leisure does: it raises, or returns an error record or places
LeisureOutcomes == {"raises", "error", "places"}

\* a turn that goes back to the model after line 181
PMLeisureAgain(tool_result) ==
    /\ turn.pc = "leisure"
    /\ turn' = [turn EXCEPT !.pc = "generate"]
    /\ last' = Did("leisure", tool_result, <<>>)
    /\ UNCHANGED <<reqs, prefs, convDest, convBudget, convStart, db, pending, msgs,
                   pendingMsgs, mgr>>

\* lines 177-181: search_leisure('amsterdam') returns or raises, and
\* ItineraryManager has no attribute _save_leisure_to_db: in every case
\* process_message ends with an exception before it reads the response
PMLeisure(tool_result) ==
    /\ turn.pc = "leisure"
    /\ Fail("process_message",
            [batch |-> turn.batch, leisure |-> tool_result, calls |-> turn.calls,
             results |-> <<>>])

\* ItineraryManager under the request cycle
Next ==
    \/ \E c \in Convs : NewManager(c)
    \/ LoadFromDb
    \/ \E h \in HotelsFor(mgr.conv) : AddHotel(h)
    \/ \E hs \in ListsOf(HotelsFor(mgr.conv), MaxList) : AddHotelList(hs)
    \/ \E f \in FlightsFor(mgr.conv) : AddFlight(f)
    \/ \E h \in HotelsFor(mgr.conv) : SaveHotel(h)
    \/ \E f \in FlightsFor(mgr.conv) : SaveFlight(f)
    \/ \E s \in ShopsFor(mgr.conv) : SaveShop(s)
    \/ Commit
    \/ Rollback

Spec == Init /\ [][Next]_vars

\* process_message turns
TurnNext ==
    \/ \E c \in Convs : NewManager(c)
    \/ \E x \in UserTexts : PMBegin(x)
    \/ \E b \in Batches : PMGenerate(b)
    \/ PMGenerateRaises
    \/ \E r \in LeisureOutcomes : PMLeisure(r)

TurnSpec == Init /\ [][TurnNext]_vars

----------------------------------------------------------------------------
(* Properties of ItineraryManager (checked under Spec)                     *)

\* the projection of the data model: what the manager holds
Projection(m) ==
    [journey_to |-> m.journey_to, journey_from |-> m.journey_from,
     stays |-> m.stays, shops |-> m.shops, activities |-> m.activities]

ShopRowsTitled(rows, c, title) ==
    {i \in 1..Len(rows) : rows[i].conv = c /\ rows[i].type = "shop" /\ rows[i].title = title}

\* C2: whatever sequence of _save_shop_to_db calls, commits and rollbacks has
\* run, no conversation has two shop Suggestions with the same title, in the
\* committed table and in the table with the session's pending rows; so a
\* second ingestion of a record adds no row.
C2_ShopTitlesUnique ==
    \A c \in Convs : \A i \in 1..Len(AllRows) :
        Cardinality(ShopRowsTitled(AllRows, c, AllRows[i].title)) <= 1

\* C2 witness: a record was ingested again, skipped, and its title is stored once
C2_Witness ==
    /\ last.op = "save_shop" /\ last.status = "skipped"
    /\ Cardinality(ShopRowsTitled(AllRows, mgr.conv, Str(Market))) = 1
    /\ Cardinality(ShopRowsTitled(db, mgr.conv, Str(Market))) = 1

\* C5: a load_from_db that follows a load_from_db (the constructor's or a
\* direct one) with no write in between leaves the projection as it was.
C5_LoadTwiceSame ==
    [][(/\ last.op \in {"init", "load"} /\ last.status = "ok"
        /\ LoadFromDb /\ last'.status = "ok")
       => Projection(mgr') = Projection(mgr)]_vars

\* the state of the loop of load_from_db of conversation c's manager before
\* it visits its k-th row, and after
Fresh(c) == [NoManager EXCEPT !.alive = TRUE, !.conv = c]
VisitBefore(c, k) ==
    LoadLoop(Fresh(c), AllRows, SubSeq(RowIds(AllRows, c), 1, k - 1),
             prefs[c]["origin"], prefs[c]["destination"])
VisitAfter(c, k) ==
    LoadRow(VisitBefore(c, k), RowIds(AllRows, c)[k], AllRows[RowIds(AllRows, c)[k]],
            prefs[c]["origin"], prefs[c]["destination"])
VisitedRow(c, k) == AllRows[RowIds(AllRows, c)[k]]
VisitedFormatted(c, k) ==
    Some(_format_suggestion(RowIds(AllRows, c)[k], VisitedRow(c, k)))
FlightVisits ==
    {v \in Convs \X (1..MaxRows + 1) :
        /\ v[2] <= Len(RowIds(AllRows, v[1]))
        /\ VisitedRow(v[1], v[2]).type = "flight"
        /\ ~VisitBefore(v[1], v[2]).raised}

\* a city code is contained, letter case aside, in a trip slot
CodeIn(code, slot) ==
    /\ code.k = "str" /\ slot.k = "str"
    /\ \E i \in 0..(Len(slot.s) - Len(code.s)) :
           \A j \in 1..Len(code.s) : UpperChar(slot.s[i + j]) = UpperChar(code.s[j])

Outbound(c, row) ==
    /\ CodeIn(row.location.origin, prefs[c]["origin"])
    /\ CodeIn(row.location.destination, prefs[c]["destination"])
Inbound(c, row) ==
    /\ CodeIn(row.location.origin, prefs[c]["destination"])
    /\ CodeIn(row.location.destination, prefs[c]["origin"])

\* C6: at every visit of a flight row by load_from_db: a row under the
\* outbound containment rule becomes journey_to; otherwise a row under the
\* inbound rule becomes journey_from; otherwise the row becomes journey_to
\* only if no journey_to was classified before it (and it does become
\* journey_to then, when its two codes are strings); nothing else changes.
C6_Classification ==
    \A v \in FlightVisits :
        LET c == v[1]
            row == VisitedRow(c, v[2])
            before == VisitBefore(c, v[2])
            after == VisitAfter(c, v[2])
            this == VisitedFormatted(c, v[2])
        IN  /\ Outbound(c, row) => after.journey_to = this
            /\ ~Outbound(c, row) /\ Inbound(c, row) =>
                   after.journey_from = this /\ after.journey_to = before.journey_to
            /\ ~Outbound(c, row) /\ ~Inbound(c, row) =>
                   /\ after.journey_to = this => before.journey_to = None
                   /\ (/\ before.journey_to = None
                       /\ row.location.origin.k = "str"
                       /\ row.location.destination.k = "str") => after.journey_to = this
                   /\ after.journey_to # this => after.journey_to = before.journey_to
                   /\ after.journey_from = before.journey_from

\* C6 witness: a manager was built over an outbound and an inbound flight
C6_Witness ==
    /\ mgr.alive /\ last.op = "init" /\ last.status = "ok"
    /\ mgr.journey_to # None /\ mgr.journey_from # None
    /\ \E v \in FlightVisits : v[1] = mgr.conv /\ Outbound(mgr.conv, VisitedRow(v[1], v[2]))
    /\ \E v \in FlightVisits : v[1] = mgr.conv /\ Inbound(mgr.conv, VisitedRow(v[1], v[2]))

IsFlight(row, o, d) ==
    row.location.origin = Str(o) /\ row.location.destination = Str(d)

\* C7: with trip origin "New York" and destination "Paris", the visit of a
\* flight row Paris -> NYC makes it journey_from.
C7_ParisNycInbound ==
    \A v \in FlightVisits :
        (/\ prefs[v[1]] = Trip(Str(NewYork), Str(Paris))
         /\ IsFlight(VisitedRow(v[1], v[2]), Paris, NYC))
        => VisitAfter(v[1], v[2]).journey_from = VisitedFormatted(v[1], v[2])

\* C8: with trip origin "New York" and destination "Paris", the visit of a
\* flight row NYC -> Paris makes it journey_to, whatever was visited before.
C8_NycParisOutbound ==
    \A v \in FlightVisits :
        (/\ prefs[v[1]] = Trip(Str(NewYork), Str(Paris))
         /\ IsFlight(VisitedRow(v[1], v[2]), NYC, Paris))
        => VisitAfter(v[1], v[2]).journey_to = VisitedFormatted(v[1], v[2])

----------------------------------------------------------------------------
(* travel_chat (backend/app.py lines 368-847)                              *)

\* the owner of each conversation, and the users a session can hold
Owner(c) == IF c = 1 THEN "u1" ELSE "u2"
SessionUsers == {"nobody", "u1"}

\* the checks without the comparison of the owner
AccessAnyUser(user, c) == IF user = "nobody" THEN "401" ELSE "ok"

\* the checks that open travel_chat (lines 371-382) and get_suggestions
\* (lines 852-858): the status they return with, "ok" when they pass
Access(user, c) ==
    IF user = "nobody" THEN "401"
    ELSE IF Owner(c) # user THEN "404"
    ELSE "ok"

Date1 == <<"2","0","2","5","-","0","6","-","0","1">>
Date2 == <<"2","0","2","5","-","0","6","-","0","7">>
June  == <<"J","u","n","e">>
ValidDates == {Date1, Date2}

\* a value a slot can hold before the turn
OldValue(slot) ==
    CASE slot = "origin" -> Str(NewYork)
      [] slot = "destination" -> Str(Rome)
      [] slot = "number_of_travelers" -> Num(2)
      [] slot = "budget_allocation" -> Dict(3)
      [] slot = "arrival_date" -> Str(Date1)
      [] slot = "departure_date" -> Str(Date2)
      [] slot = "confirmed" -> Bool(TRUE)
      [] OTHER -> Str(<<"o","l","d">>)

\* the values the model can write for a key: null, a falsy value of the
\* slot's type, and a truthy one
NewValue(slot) ==
    CASE slot = "origin" -> Str(Rome)
      [] slot = "destination" -> Str(Paris)
      [] slot = "number_of_travelers" -> Num(4)
      [] slot = "budget_allocation" -> Dict(3)
      [] slot = "arrival_date" -> Str(June)
      [] slot = "departure_date" -> Str(Date2)
      [] slot = "confirmed" -> Bool(TRUE)
      [] OTHER -> Str(<<"n","e","w">>)
FalsyValue(slot) ==
    CASE slot = "number_of_travelers" -> Num(0)
      [] slot = "budget_allocation" -> Dict(0)
      [] slot = "confirmed" -> Bool(FALSE)
      [] OTHER -> Str(<<>>)

\* {} as json.loads gives it, and as extracted_data starts (line 767)
EmptyObject == [s \in {} |-> PyNone]

\* the JSON objects the model writes in a block: nothing, one key with each
\* of its values, and objects of several keys
OneKey(slot, v) == [s \in {slot} |-> v]
Payloads ==
    {EmptyObject}
    \cup UNION {{OneKey(s, PyNone), OneKey(s, FalsyValue(s)), OneKey(s, NewValue(s))} :
                    s \in Slots}
    \cup {[destination |-> PyNone, budget |-> NewValue("budget")],
          [origin |-> NewValue("origin"), destination |-> NewValue("destination"),
           number_of_travelers |-> NewValue("number_of_travelers"),
           budget |-> NewValue("budget"),
           arrival_date |-> NewValue("arrival_date"),
           departure_date |-> NewValue("departure_date")],
          [s \in Slots |-> NewValue(s)],
          [s \in Slots |-> PyNone]}

\* what model.generate_content gives: an exception, or a text with or
\* without an |||EXTRACT|||...|||END||| block, whose content json.loads
\* turns into an object, into another JSON value, or rejects
Reply(block, payload) == [raised |-> FALSE, block |-> block, payload |-> payload]
ModelRaises == [raised |-> TRUE, block |-> "none", payload |-> <<>>]
Replies ==
    {ModelRaises, Reply("none", <<>>), Reply("invalid", <<>>), Reply("nonobject", <<>>)}
    \cup {Reply("object", x) : x \in Payloads}

\* a text shown to the user: the fallback greeting or the model's text,
\* with or without the sentinel block, with or without map links
Shown(source, block, links) == [source |-> source, block |-> block, links |-> links]

\* a and b
PyAnd(a, b) == IF Truthy(a) THEN b ELSE a

\* normalize_date (lines 71-80): the date, or today + 30 days
normalize_date(v) ==
    IF v.k = "str" /\ v.s \in ValidDates THEN v ELSE Str(<<"+","3","0">>)

\* the has_* values of lines 385-397
HasOf(row) ==
    LET p == row.preferences IN
    [origin |-> p["origin"],
     destination |-> PyOr(row.destination, p["destination"]),
     travelers |-> p["number_of_travelers"],
     weather_preference |-> p["weather_preference"],
     activities |-> p["activities"],
     budget |-> PyOr(row.budget, p["budget"]),
     budget_allocation |-> p["budget_allocation"],
     arrival_date |-> p["arrival_date"],
     departure_date |-> p["departure_date"],
     dates |-> PyAnd(p["arrival_date"], p["departure_date"]),
     flexibility |-> p["date_flexibility"],
     confirmed |-> p["confirmed"]]

\* the Conversation row as Conversation.query.get reads it (line 380)
ConvRow(c) ==
    [preferences |-> prefs[c], destination |-> convDest[c], budget |-> convBudget[c]]

Has(c) == HasOf(ConvRow(c))

\* Stage with the budget question before the activities question
StageBudgetFirst(h) ==
    IF ~Truthy(h.destination) THEN 1
    ELSE IF ~Truthy(h.origin) THEN 2
    ELSE IF ~Truthy(h.travelers) THEN 3
    ELSE IF ~Truthy(h.budget) THEN 5
    ELSE IF ~Truthy(h.activities) THEN 4
    ELSE IF ~Truthy(h.budget_allocation) THEN 6
    ELSE IF ~Truthy(h.dates) THEN 7
    ELSE IF ~Truthy(h.flexibility) THEN 8
    ELSE IF ~Truthy(h.confirmed) THEN 9
    ELSE 10

\* the if/elif chain of lines 457-551: the number of the STAGE whose prompt
\* is chosen, 10 for the recommendations
Stage(h) ==
    IF ~Truthy(h.destination) THEN 1
    ELSE IF ~Truthy(h.origin) THEN 2
    ELSE IF ~Truthy(h.travelers) THEN 3
    ELSE IF ~Truthy(h.activities) THEN 4
    ELSE IF ~Truthy(h.budget) THEN 5
    ELSE IF ~Truthy(h.budget_allocation) THEN 6
    ELSE IF ~Truthy(h.dates) THEN 7
    ELSE IF ~Truthy(h.flexibility) THEN 8
    ELSE IF ~Truthy(h.confirmed) THEN 9
    ELSE 10

\* the image picked by travel_chat (lines 434-438)
ChatHotelImage(hotel_data) ==
    LET image_url == Get(hotel_data, "room_photo_url", Str(NA))
        hotel_photos == Get(hotel_data, "hotel_photo_url", <<>>)
    IN  IF image_url = Str(NA) /\ Len(hotel_photos) > 0 THEN hotel_photos[1]
        ELSE image_url

\* the Suggestion of lines 444-455
ChatHotelRow(c, hotel_data) ==
    Row(c, "hotel", Get(hotel_data, "hotel_name", PyNone),
        Get(hotel_data, "hotel_description", PyNone),
        Get(hotel_data, "price", PyNone),
        HalfRating(Get(hotel_data, "rating", Num(0))),
        ChatHotelImage(hotel_data), hotel_data["booking_url"],
        [address |-> Get(hotel_data, "destination", PyNone)])

\* one slot after lines 790-825: the key's value when it is truthy
MergeSlotAlways(old, extracted_data, key) == Get(extracted_data, key, PyNone)
MergeSlot(old, extracted_data, key) ==
    IF Truthy(Get(extracted_data, key, PyNone)) THEN extracted_data[key] ELSE old

\* a Conversation column that no turn writes
DenormalizedKept(old, extracted_data, key) == old

\* conversation.destination and conversation.budget after lines 794-796
\* and 807-809: written under the same condition as their slots
Denormalized(old, extracted_data, key) ==
    IF Truthy(Get(extracted_data, key, PyNone)) THEN extracted_data[key] ELSE old

\* the preferences after lines 790-825
Merged(p, extracted_data) == [s \in Slots |-> MergeSlot(p[s], extracted_data, s)]

\* what search_hotels of app.py gives (lines 107-177): None or a record
NoHotel == [found |-> FALSE]
FoundHotel(r) == [found |-> TRUE, data |-> r]
HotelOutcomes == {NoHotel} \cup {FoundHotel(r) : r \in HotelRecords}

\* request.json['messages']
MessageLists == {<<>>} \cup {<<[role |-> "user", content |-> x]>> : x \in UserTexts}

\* the conversation slots a chat turn starts from: each slot unset or set by
\* an earlier turn, the denormalised columns written with their slots
SlotChoices == {[s \in Slots |-> IF s \in S THEN OldValue(s) ELSE PyNone] :
                    S \in SUBSET Slots}

ChatInit ==
    /\ prefs \in {[c \in Convs |-> IF c = 1 THEN p ELSE NoPrefs] : p \in SlotChoices}
    /\ convDest = [c \in Convs |-> prefs[c]["destination"]]
    /\ convBudget = [c \in Convs |-> prefs[c]["budget"]]
    /\ convStart = [c \in Convs |->
                      IF Truthy(prefs[c]["arrival_date"])
                      THEN normalize_date(prefs[c]["arrival_date"]) ELSE PyNone]
    /\ db = <<>>
    /\ pending = <<>>
    /\ msgs = <<>>
    /\ pendingMsgs = <<>>
    /\ mgr = NoManager
    /\ turn = IdleTurn
    /\ last = Did("none", "ok", <<>>)
    /\ reqs = NoRequests

\* the two Message rows of lines 830-843, the reply first
TurnMessagesReplyFirst(c, content, ai_response) ==
    <<Message(c, "assistant", ai_response), Message(c, "user", content)>>

\* the two Message rows of lines 830-843, in the order they are added
TurnMessages(c, content, ai_response) ==
    <<Message(c, "user", content), Message(c, "assistant", ai_response)>>

\* travel_chat (lines 368-847), one request from the session check to the
\* response; an exception ends it with a 500 and nothing committed
TravelChat(user, c, messages, hotel, reply) ==
    LET h == Has(c)
        searched == Truthy(h.destination) /\ Truthy(h.dates)
        found == searched /\ hotel.found
        stage == Stage(h)
        match == ~reply.raised /\ reply.block # "none"
        loaded == match /\ reply.block \in {"object", "nonobject"}
        extracted_data == IF match /\ reply.block = "object"
                          THEN reply.payload ELSE EmptyObject
        links == Truthy(h.confirmed) /\ Truthy(h.destination)
        ai_response == Shown(IF reply.raised THEN "fallback" ELSE "model",
                             match /\ ~loaded, links)
        raises == \/ stage = 10 /\ ~found
                  \/ match /\ reply.block = "nonobject"
                  \/ messages = <<>>
        arrival == Get(extracted_data, "arrival_date", PyNone)
        \* the block of the reply, when the model was called
        block == IF match /\ ~(stage = 10 /\ ~found) THEN reply.block ELSE "none"
    IN
    /\ Len(msgs) + 2 <= MaxMsgs
    /\ Len(db) + 1 <= MaxRows
    /\ searched \/ hotel = NoHotel
    /\ UNCHANGED <<pending, pendingMsgs, mgr, turn, reqs>>
    /\ IF Access(user, c) = "401"
       THEN /\ last' = Did("travel_chat", "401", <<>>)
            /\ UNCHANGED <<prefs, convDest, convBudget, convStart, db, msgs>>
       ELSE IF Access(user, c) = "404"
       THEN /\ last' = Did("travel_chat", "404", <<>>)
            /\ UNCHANGED <<prefs, convDest, convBudget, convStart, db, msgs>>
       ELSE IF raises
       THEN /\ last' = Did("travel_chat", "500",
                           [stage |-> stage, extracted |-> EmptyObject,
                            block |-> block, sent |-> Len(messages)])
            /\ UNCHANGED <<prefs, convDest, convBudget, convStart, db, msgs>>
       ELSE /\ prefs' = [prefs EXCEPT ![c] = Merged(@, extracted_data)]
            /\ convDest' = [convDest EXCEPT
                              ![c] = Denormalized(@, extracted_data, "destination")]
            /\ convBudget' = [convBudget EXCEPT
                                ![c] = Denormalized(@, extracted_data, "budget")]
            /\ convStart' = [convStart EXCEPT
                               ![c] = IF Truthy(arrival)
                                      THEN normalize_date(arrival) ELSE @]
            /\ db' = IF found THEN Append(db, ChatHotelRow(c, hotel.data)) ELSE db
            /\ msgs' = msgs \o TurnMessages(c, messages[Len(messages)].content,
                                             ai_response)
            /\ last' = Did("travel_chat", "200",
                           [stage |-> stage, extracted |-> extracted_data,
                            block |-> block, sent |-> Len(messages),
                            response |-> ai_response])

\* the requests: one without a session user, one for another user's
\* conversation, one with an empty message list, and the owner's requests
\* with every outcome of the hotel search and of the model
Request(user, c, messages, hotel, reply) ==
    [user |-> user, c |-> c, messages |-> messages, hotel |-> hotel, reply |-> reply]
Requests ==
    {Request("nobody", 1, m, NoHotel, ModelRaises) : m \in MessageLists \ {<<>>}}
    \cup {Request("u1", 2, m, NoHotel, ModelRaises) : m \in MessageLists \ {<<>>}}
    \cup {Request("u1", 1, <<>>, h, Reply("none", <<>>)) : h \in HotelOutcomes}
    \cup {Request("u1", 1, m, h, r) :
            m \in MessageLists \ {<<>>}, h \in HotelOutcomes, r \in Replies}

ChatNext ==
    \E r \in Requests : TravelChat(r.user, r.c, r.messages, r.hotel, r.reply)

ChatSpec == ChatInit /\ [][ChatNext]_vars

\* turns of both kinds on new conversations
AppNext == ChatNext \/ TurnNext

AppSpec == Init /\ [][AppNext]_vars

\* the rows of conversation c as get_suggestions lists them (lines 860-874)
Listed(c) == [i \in 1..Len(RowIds(db, c)) |-> db[RowIds(db, c)[i]]]

\* get_suggestions (lines 849-874): a read of the conversation's rows
GetSuggestions(user, c) ==
    /\ last' = IF Access(user, c) = "ok"
               THEN Did("get_suggestions", "200", Listed(c))
               ELSE Did("get_suggestions", Access(user, c), <<>>)
    /\ UNCHANGED <<prefs, convDest, convBudget, convStart, db, pending, msgs,
                   pendingMsgs, mgr, turn, reqs>>

\* the two routes of a conversation, and the turns of process_message
RouteNext ==
    \/ AppNext
    \/ \E user \in SessionUsers, c \in Convs : GetSuggestions(user, c)

RouteSpec == Init /\ [][RouteNext]_vars

----------------------------------------------------------------------------
(* The tool loop of process_message (chat_agent.py lines 185-306)          *)

\* The steps below are the branches of the loop as written, from the state
\* in which line 199 is entered.  No behaviour of TurnSpec enters it
\* (PMLeisure); the loop is modelled apart, for the properties of its
\* branches.

MaxLoopMsgs == 4    \* messages stored and in the session during loop turns

Itin == <<"i","t">>
Cities == {Str(Rome), PyNone}

\* what search_hotels returns for conversation c: records as booking_agent
\* builds them, one of them with a null reviewScore
LoopHotelsFor(c) == HotelsFor(c) \cup {[HotelRitz EXCEPT !.rating = PyNone]}
KnownTools == {"search_hotels", "search_flights", "get_activity_recommendations",
               "search_shops", "search_leisure"}

NMsgs == Len(msgs) + Len(pendingMsgs)

\* lines 172-199: the user's message is in the session, the response holds
\* the function calls `batch`, and tool_result holds what line 177 returned
LoopBegin(content, batch) ==
    /\ mgr.alive /\ turn.pc = "idle"
    /\ batch # <<>>
    /\ NMsgs < MaxLoopMsgs
    /\ pendingMsgs' = Append(pendingMsgs, Message(mgr.conv, "user", content))
    /\ turn' = [pc |-> "tools", batch |-> batch, calls |-> 1,
                prefs |-> prefs[mgr.conv], results |-> <<>>,
                from |-> "search_leisure"]
    /\ last' = Did("generate", "ok", batch)
    /\ UNCHANGED <<reqs, prefs, convDest, convBudget, convStart, db, pending, msgs, mgr>>

\* the loop is at an invocation of tool `name`
AtTool(name) == turn.pc = "tools" /\ turn.batch # <<>> /\ Head(turn.batch) = name

\* lines 276-283: the part appended for the invocation holds the value of
\* tool_result, which the call named `from` has produced; p is self.prefs
Stepped(name, from, p) ==
    [turn EXCEPT !.batch = Tail(@), !.from = from, !.prefs = p,
                 !.results = Append(@, [name |-> name, from |-> from])]

\* an exception leaves process_message
LoopRaised ==
    Fail("process_message",
         [batch |-> turn.batch, leisure |-> "passed", calls |-> turn.calls,
          results |-> turn.results])

\* the loop of lines 220-222 over the hotels found
RECURSIVE SaveEach(_, _, _)
SaveEach(c, session, hotels) ==
    IF hotels = <<>> THEN [session |-> session, raised |-> FALSE]
    ELSE LET r == _save_hotel_to_db(c, session, Head(hotels))
         IN  IF r.raised THEN r ELSE SaveEach(c, r.session, Tail(hotels))

\* the search_hotels branch (lines 205-226) with argument city, the provider
\* returning the list `hotels`
ExecSearchHotels(city, hotels) ==
    /\ AtTool("search_hotels")
    /\ Len(AllRows) + Len(hotels) <= MaxRows
    /\ LET r == SaveEach(mgr.conv, pending, hotels)
       IN  IF r.raised THEN LoopRaised
           ELSE /\ pending' = r.session
                /\ turn' = Stepped("search_hotels", "search_hotels",
                                   [turn.prefs EXCEPT !["destination"] = city])
                /\ last' = Did("search_hotels",
                               IF hotels = <<>> THEN "none" ELSE "saved", city)
                /\ UNCHANGED <<reqs, prefs, convDest, convBudget, convStart, db, msgs,
                               pendingMsgs, mgr>>

\* what search_flights does: it raises, returns nothing, or returns a record
FlightSearches ==
    {[outcome |-> "raises", data |-> EmptyObject],
     [outcome |-> "nothing", data |-> EmptyObject]}
    \cup {[outcome |-> "record", data |-> f] : f \in FlightRecords}

\* the search_flights branch (lines 229-242): an exception of the provider
\* is caught; a result that is truthy goes to _save_flight_to_db
ExecSearchFlights(o) ==
    /\ AtTool("search_flights")
    /\ Len(AllRows) < MaxRows
    /\ pending' = IF o.outcome = "record"
                  THEN _save_flight_to_db(mgr.conv, pending, o.data)
                  ELSE pending
    /\ turn' = Stepped("search_flights", "search_flights", turn.prefs)
    /\ last' = Did("search_flights", o.outcome, o.data)
    /\ UNCHANGED <<reqs, prefs, convDest, convBudget, convStart, db, msgs,
                   pendingMsgs, mgr>>

\* the get_activity_recommendations branch (lines 244-255):
\* _get_activity_itinerary adds an assistant message and commits the session
\* (lines 328-329), then line 250 adds a message with the same text
ExecActivity ==
    /\ AtTool("get_activity_recommendations")
    /\ NMsgs + 2 <= MaxLoopMsgs
    /\ db' = db \o pending
    /\ pending' = <<>>
    /\ msgs' = (msgs \o pendingMsgs) \o <<Message(mgr.conv, "assistant", Itin)>>
    /\ pendingMsgs' = <<Message(mgr.conv, "assistant", Itin)>>
    /\ turn' = Stepped("get_activity_recommendations",
                       "get_activity_recommendations", turn.prefs)
    /\ last' = Did("get_activity_recommendations", "ok", <<>>)
    /\ UNCHANGED <<reqs, prefs, convDest, convBudget, convStart, mgr>>

\* the search_shops branch (lines 257-264)
ExecSearchShops(shop_data) ==
    /\ AtTool("search_shops")
    /\ Len(AllRows) < MaxRows
    /\ pending' = _save_shop_to_db(mgr.conv, db, pending, shop_data)
    /\ turn' = Stepped("search_shops", "search_shops", turn.prefs)
    /\ last' = Did("search_shops", "ok", <<>>)
    /\ UNCHANGED <<reqs, prefs, convDest, convBudget, convStart, db, msgs,
                   pendingMsgs, mgr>>

\* the search_leisure branch (lines 266-273): the provider raises, or line
\* 271 does, as line 181
ExecSearchLeisure ==
    /\ AtTool("search_leisure")
    /\ LoopRaised

\* a provider called outside a try raises (search_hotels, search_shops, the
\* model of _get_activity_itinerary)
ExecRaises ==
    /\ \E name \in {"search_hotels", "search_shops", "get_activity_recommendations"} :
          AtTool(name)
    /\ LoopRaised

\* a name that no branch of lines 205-273 tests: tool_result keeps the value
\* of the call before
ExecUnknown ==
    /\ turn.pc = "tools" /\ turn.batch # <<>> /\ Head(turn.batch) \notin KnownTools
    /\ turn' = Stepped(Head(turn.batch), turn.from, turn.prefs)
    /\ last' = Did(Head(turn.batch), "stale", turn.from)
    /\ UNCHANGED <<reqs, prefs, convDest, convBudget, convStart, db, pending, msgs,
                   pendingMsgs, mgr>>

\* lines 286-306 after the last invocation: the second call of the model,
\* the assistant message, self.prefs stored, the commit
LoopEnd ==
    /\ turn.pc = "tools" /\ turn.batch = <<>>
    /\ NMsgs + 1 <= MaxLoopMsgs
    /\ prefs' = [prefs EXCEPT ![mgr.conv] = turn.prefs]
    /\ db' = db \o pending
    /\ pending' = <<>>
    /\ msgs' = (msgs \o pendingMsgs) \o <<Message(mgr.conv, "assistant", <<"o","k">>)>>
    /\ pendingMsgs' = <<>>
    /\ mgr' = NoManager
    /\ turn' = IdleTurn
    /\ last' = Did("process_message", "ok",
                   [batch |-> <<>>, leisure |-> "passed", calls |-> turn.calls + 1,
                    results |-> turn.results])
    /\ UNCHANGED <<reqs, convDest, convBudget, convStart>>

\* lines 292-296: the second call of the model raises
LoopEndRaises ==
    /\ turn.pc = "tools" /\ turn.batch = <<>>
    /\ LoopRaised

LoopNext ==
    \/ \E c \in Convs : NewManager(c)
    \/ \E x \in UserTexts, b \in Batches : LoopBegin(x, b)
    \/ \E city \in Cities, hs \in ListsOf(LoopHotelsFor(mgr.conv), MaxList) :
          ExecSearchHotels(city, hs)
    \/ \E o \in FlightSearches : ExecSearchFlights(o)
    \/ ExecActivity
    \/ \E s \in ShopsFor(mgr.conv) : ExecSearchShops(s)
    \/ ExecSearchLeisure
    \/ ExecRaises
    \/ ExecUnknown
    \/ LoopEnd
    \/ LoopEndRaises

LoopSpec == Init /\ [][LoopNext]_vars

----------------------------------------------------------------------------
(* Claims on travel_chat and process_message                               *)

\* the slots in the order the questions are asked
StageOrder ==
    <<{"destination"}, {"origin"}, {"number_of_travelers"}, {"activities"},
      {"budget"}, {"budget_allocation"}, {"arrival_date", "departure_date"},
      {"date_flexibility"}, {"confirmed"}>>
Present(p, S) == \A s \in S : p[s] # PyNone
FirstMissing(p) ==
    IF \A i \in 1..Len(StageOrder) : Present(p, StageOrder[i])
    THEN Len(StageOrder) + 1
    ELSE CHOOSE i \in 1..Len(StageOrder) :
            /\ ~Present(p, StageOrder[i])
            /\ \A j \in 1..(i - 1) : Present(p, StageOrder[j])

\* C1: whatever slots the conversation holds, the stage travel_chat chooses
\* is the one of the first unset slot in the order destination, origin,
\* travelers, activities, budget, budget allocation, both dates, flexibility,
\* confirmation, and the recommendation stage (10) when none is unset
C1_StageIsFirstMissing ==
    [][(last'.op = "travel_chat" /\ last'.status \in {"200", "500"})
         => last'.arg.stage = FirstMissing(prefs[1])]_vars

\* destination and origin set, nothing else: the travelers question
C1_Witness ==
    /\ last.op = "travel_chat" /\ last.status = "200"
    /\ last.arg.stage = 3
    /\ last.arg.extracted = EmptyObject
    /\ prefs[1] = Trip(OldValue("origin"), OldValue("destination"))

\* C3: a key that the payload does not have, or has with null, leaves the
\* slot as it was before the turn
C3_NullNeverOverwrites ==
    [][(last'.op = "travel_chat" /\ last'.status = "200")
         => \A s \in Slots :
              (s \notin DOMAIN last'.arg.extracted \/ last'.arg.extracted[s] = PyNone)
                => prefs'[1][s] = prefs[1][s]]_vars

\* {"destination": null, "budget": ...} applied to a conversation whose
\* destination is Rome
C3_Witness ==
    /\ last.op = "travel_chat" /\ last.status = "200"
    /\ last.arg.extracted = [destination |-> PyNone, budget |-> NewValue("budget")]
    /\ prefs[1]["destination"] = Str(Rome)
    /\ prefs[1]["budget"] = NewValue("budget")

RowsOfType(c, type) ==
    Cardinality({i \in 1..Len(db) : db[i].conv = c /\ db[i].type = type})

\* C4: a process_message turn whose batch is search_hotels, search_flights
\* returns without raising, with one flight row and no hotel row stored
C4_HotelFailsFlightSaved ==
    (last.op = "process_message"
        /\ last.arg.batch = <<"search_hotels", "search_flights">>)
    => /\ last.status # "raised"
       /\ \E c \in Convs : RowsOfType(c, "flight") = 1 /\ RowsOfType(c, "hotel") = 0

\* C9: a process_message turn whose batch names a tool without a provider
\* goes on to the end of the batch and completes
C9_UnknownToolContinues ==
    (last.op = "process_message"
        /\ \E i \in 1..Len(last.arg.batch) : last.arg.batch[i] = "book_taxi")
    => last.status # "raised"

\* C10: a process_message turn in which a provider call has raised still
\* completes
C10_ProviderFailureIsolated ==
    (last.op = "process_message" /\ last.arg.leisure = "raises")
    => last.status # "raised"

\* C11: a travel_chat request of the owner that carries a message gets a
\* reply, whatever the stage, the hotel search and the model call give
\* (replies with a malformed block set aside)
C11_AlwaysReplies ==
    (last.op = "travel_chat" /\ last.status \in {"200", "500"}
        /\ last.arg.sent > 0 /\ last.arg.block \in {"none", "object"})
    => last.status = "200"

\* C15: neither the text travel_chat returns nor an assistant message it
\* stores holds a sentinel block
C15_NoSentinelShown ==
    /\ (last.op = "travel_chat" /\ last.status = "200") => ~last.arg.response.block
    /\ \A i \in 1..Len(msgs) :
          msgs[i].role = "assistant" => ~msgs[i].content.block

\* C16: before the recommendation stage, a turn whose reply has a block that
\* is not a JSON object completes with a reply and leaves every slot and
\* every denormalised column as it was
C16_MalformedDiscarded ==
    [][(last'.op = "travel_chat" /\ last'.status \in {"200", "500"}
          /\ last'.arg.sent > 0 /\ last'.arg.stage < 10
          /\ last'.arg.block \in {"invalid", "nonobject"})
         => /\ last'.status = "200"
            /\ prefs' = prefs /\ convDest' = convDest
            /\ convBudget' = convBudget /\ convStart' = convStart]_vars

\* C17: every stored assistant message has a user message of its
\* conversation stored before it
C17_UserBeforeReply ==
    \A i \in 1..Len(msgs) :
        msgs[i].role = "assistant"
          => \E j \in 1..(i - 1) : msgs[j].role = "user" /\ msgs[j].conv = msgs[i].conv

\* a completed turn: its two messages are stored
C17_Witness ==
    /\ last.op = "travel_chat" /\ last.status = "200"
    /\ Len(msgs) = 2 /\ msgs[1].role = "user" /\ msgs[2].role = "assistant"

Recomputed(c) == load_from_db(Fresh(c), AllRows, prefs[c])
Itinerary(m) ==
    [journey_to |-> m.journey_to, journey_from |-> m.journey_from,
     stays |-> m.stays, shops |-> m.shops]

\* C12: after _save_hotel_to_db, _save_flight_to_db, _save_shop_to_db,
\* add_hotel and add_flight, the manager holds the journey_to, journey_from,
\* stays and shops that a load from scratch of the conversation's rows gives
C12_ProjectionRecomputable ==
    (/\ last.op \in {"save_hotel", "save_flight", "save_shop",
                     "add_hotel", "add_hotels", "add_flight"}
     /\ mgr.alive /\ ~Recomputed(mgr.conv).raised)
    => Itinerary(mgr) = Itinerary(Recomputed(mgr.conv))

----------------------------------------------------------------------------
(* Requests in flight at once: the development server answers each request  *)
(* in its own thread, with its own session (app.run, app.py line 881)       *)

\* the replies of the model in these requests
RaceReplies ==
    {ModelRaises, Reply("invalid", <<>>), Reply("nonobject", <<>>)}
    \cup {Reply("object", OneKey(s, NewValue(s))) :
            s \in {"origin", "budget", "number_of_travelers"}}

\* travel_chat, lines 371-397: the owner's request reads its Conversation
RaceChatBegin(r, c) ==
    /\ reqs[r].pc = "idle"
    /\ reqs' = [reqs EXCEPT ![r] = [pc |-> "chat", conv |-> c, row |-> ConvRow(c)]]
    /\ UNCHANGED <<prefs, convDest, convBudget, convStart, db, pending, msgs,
                   pendingMsgs, mgr, turn, last>>

\* travel_chat, lines 417-847, on the Conversation object read at the start:
\* the commit writes the preferences of that object and the columns the
\* request assigned
RaceChatEnd(r, content, hotel, reply) ==
    LET q == reqs[r]
        c == q.conv
        h == HasOf(q.row)
        searched == Truthy(h.destination) /\ Truthy(h.dates)
        found == searched /\ hotel.found
        stage == Stage(h)
        match == ~reply.raised /\ reply.block # "none"
        loaded == match /\ reply.block \in {"object", "nonobject"}
        extracted_data == IF match /\ reply.block = "object"
                          THEN reply.payload ELSE EmptyObject
        links == Truthy(h.confirmed) /\ Truthy(h.destination)
        ai_response == Shown(IF reply.raised THEN "fallback" ELSE "model",
                             match /\ ~loaded, links)
        raises == \/ stage = 10 /\ ~found
                  \/ match /\ reply.block = "nonobject"
        arrival == Get(extracted_data, "arrival_date", PyNone)
    IN
    /\ reqs[r].pc = "chat"
    /\ Len(db) + 1 <= MaxRows
    /\ searched \/ hotel = NoHotel
    /\ UNCHANGED <<pending, pendingMsgs, mgr, turn, last>>
    /\ IF raises
       THEN /\ reqs' = [reqs EXCEPT ![r] = [pc |-> "done", conv |-> c,
                            status |-> "500", extracted |-> EmptyObject]]
            /\ UNCHANGED <<prefs, convDest, convBudget, convStart, db, msgs>>
       ELSE /\ reqs' = [reqs EXCEPT ![r] = [pc |-> "done", conv |-> c,
                            status |-> "200", extracted |-> extracted_data]]
            /\ prefs' = [prefs EXCEPT ![c] = Merged(q.row.preferences, extracted_data)]
            /\ convDest' = [convDest EXCEPT
                              ![c] = Denormalized(@, extracted_data, "destination")]
            /\ convBudget' = [convBudget EXCEPT
                                ![c] = Denormalized(@, extracted_data, "budget")]
            /\ convStart' = [convStart EXCEPT
                               ![c] = IF Truthy(arrival)
                                      THEN normalize_date(arrival) ELSE @]
            /\ db' = IF found THEN Append(db, ChatHotelRow(c, hotel.data)) ELSE db
            /\ msgs' = msgs \o TurnMessages(c, content, ai_response)

\* a request that ingests shops opens its session
RaceShopBegin(r, c) ==
    /\ reqs[r].pc = "idle"
    /\ reqs' = [reqs EXCEPT ![r] = [pc |-> "shops", conv |-> c, session |-> <<>>]]
    /\ UNCHANGED <<prefs, convDest, convBudget, convStart, db, pending, msgs,
                   pendingMsgs, mgr, turn, last>>

\* _save_shop_to_db in the request's session: its query reads the committed
\* rows and the rows of this session, not those of the other sessions
RaceSaveShop(r, shop_data) ==
    /\ reqs[r].pc = "shops"
    /\ Len(db) + Len(reqs[r].session) < MaxRows
    /\ reqs' = [reqs EXCEPT ![r].session =
                    _save_shop_to_db(reqs[r].conv, db, @, shop_data)]
    /\ UNCHANGED <<prefs, convDest, convBudget, convStart, db, pending, msgs,
                   pendingMsgs, mgr, turn, last>>

\* db.session.commit() of the request that ingested shops
RaceShopCommit(r) ==
    /\ reqs[r].pc = "shops"
    /\ db' = db \o reqs[r].session
    /\ reqs' = [reqs EXCEPT ![r] = [pc |-> "done", conv |-> reqs[r].conv,
                    status |-> "200", extracted |-> EmptyObject]]
    /\ UNCHANGED <<prefs, convDest, convBudget, convStart, pending, msgs,
                   pendingMsgs, mgr, turn, last>>

RaceNext ==
    \E r \in Requesters :
        \/ \E c \in Convs : RaceChatBegin(r, c)
        \/ \E x \in UserTexts, h \in HotelOutcomes, y \in RaceReplies :
              RaceChatEnd(r, x, h, y)
        \/ \E c \in Convs : RaceShopBegin(r, c)
        \/ \E s \in ShopRecords : RaceSaveShop(r, s)
        \/ RaceShopCommit(r)

RaceSpec == Init /\ [][RaceNext]_vars

----------------------------------------------------------------------------
(* Claims on requests in flight at once                                    *)

\* C18: however two requests that ingest shops interleave, no conversation
\* has two stored shop Suggestions with one title
C18_NoDuplicateShopStored ==
    \A c \in Convs : \A i \in 1..Len(db) :
        Cardinality(ShopRowsTitled(db, c, db[i].title)) <= 1

\* C19: every slot that a completed travel_chat request set is set in the
\* stored preferences, however the requests interleave
C19_NoLostSlot ==
    \A r \in Requesters :
        (reqs[r].pc = "done" /\ reqs[r].status = "200")
          => \A s \in DOMAIN reqs[r].extracted :
                Truthy(reqs[r].extracted[s]) => prefs[reqs[r].conv][s] # PyNone

----------------------------------------------------------------------------
(* Hotel ingestion over records of every shape                             *)

\* a record with one more key
WithKey(rec, key, v) ==
    [k \in DOMAIN rec \cup {key} |-> IF k = key THEN v ELSE rec[k]]

HotelBase ==
    [destination |-> Str(Paris), hotel_name |-> Str(Ritz),
     hotel_description |-> Str(Ritz), booking_url |-> Str(Ritz), price |-> Num(300)]

\* review scores in tenths of a point: negative, 0, 0.5, 8, 10, and null
Ratings == {Num(0 - 10), Num(0), Num(5), Num(80), Num(100), PyNone}

\* the room photo and the hotel photos of a record
Photos(rec, room, photos) ==
    WithKey(WithKey(rec, "room_photo_url", room), "hotel_photo_url", photos)

HotelVariants ==
    {Photos(WithKey(HotelBase, "rating", r), Str(NA), <<Str(Photo1)>>) : r \in Ratings}
    \cup {Photos(HotelBase, Str(NA), <<Str(Photo1)>>)}
    \cup {Photos(WithKey(HotelBase, "rating", Num(80)), room, photos) :
            room \in {Str(Photo2), Str(NA), Str(<<>>), PyNone},
            photos \in {<<>>, <<Str(Photo1), Str(Photo2)>>}}
    \cup {WithKey(WithKey(HotelBase, "rating", Num(80)), "hotel_photo_url", photos) :
            photos \in {<<>>, <<Str(Photo1)>>}}

HotelNext ==
    \/ NewManager(1)
    \/ \E h \in HotelVariants : SaveHotel(h)
    \/ \E h \in HotelRecords : AddHotel(h)
    \/ \E hs \in ListsOf(HotelRecords, MaxList) : AddHotelList(hs)
    \/ Commit
    \/ Rollback

HotelSpec == Init /\ [][HotelNext]_vars

----------------------------------------------------------------------------
(* Claims on hotel ingestion                                               *)

\* the row a _save_hotel_to_db step added
NewHotelRow == pending'[Len(pending')]
Saved(h) == SaveHotel(h) /\ last'.status = "ok"

\* C22: the stored rating (in hundredths) is 0 when the record's rating (in
\* tenths) is 0, negative or absent, and half of it when it is positive; it
\* is never negative and at most 5 for a rating of at most 10
C22_RatingRescaled ==
    [][\A h \in HotelVariants :
         Saved(h) =>
           LET s == NewHotelRow.rating.n IN
           /\ s >= 0
           /\ ("rating" \notin DOMAIN h \/ h["rating"].n <= 0) => s = 0
           /\ ("rating" \in DOMAIN h /\ h["rating"].n > 0) => 2 * s = 10 * h["rating"].n
           /\ ("rating" \in DOMAIN h /\ h["rating"].n \in 0..100) => s \in 0..500]_vars

\* ratings of 8 and of a value that is not positive, stored as 4.00 and 0
C22_Witness ==
    /\ last.op = "save_hotel" /\ last.status = "ok"
    /\ Len(pending) = 2
    /\ pending[1].rating = Num(0) /\ pending[2].rating = Num(400)

\* C25: _save_hotel_to_db adds one hotel row whatever rows are stored, and
\* add_hotel with a list of k records adds k hotel rows
C25_HotelsNotDeduplicated ==
    [][/\ \A h \in HotelVariants :
            Saved(h) => /\ Len(pending') = Len(pending) + 1
                        /\ NewHotelRow.type = "hotel"
       /\ \A hs \in ListsOf(HotelRecords, MaxList) :
            (AddHotelList(hs) /\ last'.status # "error")
              => /\ Len(pending') = Len(pending) + Len(hs)
                 /\ \A i \in (Len(pending) + 1)..Len(pending') :
                       pending'[i].type = "hotel"]_vars

\* the same record ingested twice: two equal rows
C25_Witness ==
    /\ last.op = "save_hotel" /\ last.status = "ok"
    /\ Len(AllRows) = 2 /\ AllRows[1] = AllRows[2] /\ AllRows[1].type = "hotel"

\* C26: a hotel row never stores the placeholder 'N/A' or an empty text as
\* its image: it stores a photo or no image
C26_ImageOrNone ==
    \A i \in 1..Len(AllRows) :
        AllRows[i].type = "hotel"
          => AllRows[i].image_url \in {Str(Photo1), Str(Photo2), PyNone}

----------------------------------------------------------------------------
(* Claims on shops, stored rows and the itinerary given to the model       *)

\* C27: _save_shop_to_db with an empty record, a record with an error or a
\* record without a name adds no row, changes no row and does not raise
C27_UnusableShopIgnored ==
    [][\A s \in {ShopEmpty, ShopError, ShopNoName} :
         SaveShop(s) => /\ pending' = pending /\ db' = db /\ mgr' = mgr
                        /\ last'.status \notin {"added", "raised"}]_vars

\* a record rejected while the conversation has a row
C27_Witness ==
    /\ last.op = "save_shop" /\ last.status = "rejected"
    /\ Len(AllRows) >= 1 /\ mgr.alive

IsPrefix(s, u) == Len(s) <= Len(u) /\ SubSeq(u, 1, Len(s)) = s

C29_NonNullWritten ==
    (last.op = "travel_chat" /\ last.status = "200")
    => \A s \in DOMAIN last.arg.extracted :
          last.arg.extracted[s] # PyNone => prefs[1][s] = last.arg.extracted[s]

\* C30: the itinerary of a manager that has loaded a conversation with shop
\* rows has a shops part with those rows
C30_ShopsInItinerary ==
    (/\ mgr.alive /\ last.op \in {"init", "load"} /\ last.status = "ok"
     /\ NShops(AllRows, mgr.conv) > 0)
    => /\ "shops" \in DOMAIN to_dict(mgr)
       /\ Len(to_dict(mgr)["shops"]) >= NShops(AllRows, mgr.conv)

\* C21: a process_message turn in which search_leisure returned places ends
\* without raising and with a leisure Suggestion stored
C21_LeisureIngested ==
    (last.op = "process_message" /\ last.arg.leisure = "places")
    => /\ last.status # "raised"
       /\ \E c \in Convs : RowsOfType(c, "leisure") = 1

\* C23: a process_message turn whose response asks for no tool calls no
\* provider
C23_NoToolNoProvider ==
    (last.op = "process_message" /\ last.arg.batch = <<>>)
    => last.arg.leisure = "none"

\* C24: a process_message turn whose response asks for n tools feeds n
\* results back to the model
C24_OneResultPerInvocation ==
    (last.op = "process_message" /\ last.arg.calls >= 1)
    => Len(last.arg.results) = Len(last.arg.batch)

----------------------------------------------------------------------------
(* Claims on the load of the manager                                       *)

\* C31: load_from_db, in the constructor or called on the manager, never
\* raises over the rows that the save operations have stored
C31_LoadNeverRaises ==
    last.op \in {"init", "load"} => last.status = "ok"

\* the flight rows of conversation c by their position in creation order,
\* under the outbound rule, under the inbound rule only, and under neither
FlightIds(c) ==
    {i \in 1..Len(AllRows) : AllRows[i].conv = c /\ AllRows[i].type = "flight"}
OutboundIds(c) == {i \in FlightIds(c) : Outbound(c, AllRows[i])}
InboundIds(c) == {i \in FlightIds(c) \ OutboundIds(c) : Inbound(c, AllRows[i])}
NeitherIds(c) == FlightIds(c) \ (OutboundIds(c) \cup InboundIds(c))
Latest(S) == CHOOSE x \in S : \A y \in S : y <= x
Earliest(S) == CHOOSE x \in S : \A y \in S : x <= y
Formatted(i) == Some(_format_suggestion(i, AllRows[i]))

\* C34: after a load that completes, journey_to is the latest flight row
\* under the outbound rule, or without one the earliest flight row under
\* neither rule, or without one null; journey_from is the latest flight row
\* under the inbound rule only, or null; and the two are not the same row
C34_JourneysOfLoad ==
    (mgr.alive /\ last.op \in {"init", "load"} /\ last.status = "ok")
    => LET c == mgr.conv IN
       /\ mgr.journey_to =
            IF OutboundIds(c) # {} THEN Formatted(Latest(OutboundIds(c)))
            ELSE IF NeitherIds(c) # {} THEN Formatted(Earliest(NeitherIds(c)))
            ELSE None
       /\ mgr.journey_from =
            IF InboundIds(c) # {} THEN Formatted(Latest(InboundIds(c))) ELSE None
       /\ mgr.journey_to # None => mgr.journey_to # mgr.journey_from

\* a manager built over a flight under neither rule and a later outbound one
C34_Witness ==
    /\ mgr.alive /\ last.op = "init" /\ last.status = "ok"
    /\ NeitherIds(mgr.conv) = {1} /\ OutboundIds(mgr.conv) = {2}
    /\ mgr.journey_to = Formatted(2)

----------------------------------------------------------------------------
(* Claims on the slots across turns                                        *)

\* the stage of conversation c after the step
StageAfter(c) ==
    Stage(HasOf([preferences |-> prefs'[c], destination |-> convDest'[c],
                 budget |-> convBudget'[c]]))

\* C33: no step of a travel_chat request, alone or among the steps of other
\* requests, clears a slot or a denormalised column that has a value, and
\* the stage of a conversation after a step is not before its stage before
C33_NeverBackwards ==
    [][\A c \in Convs :
         /\ \A s \in Slots : prefs[c][s] # PyNone => prefs'[c][s] # PyNone
         /\ convDest[c] # PyNone => convDest'[c] # PyNone
         /\ convBudget[c] # PyNone => convBudget'[c] # PyNone
         /\ StageAfter(c) >= Stage(Has(c))]_vars

----------------------------------------------------------------------------
(* Claims on the access checks                                             *)

Stored == <<prefs, convDest, convBudget, convStart, db, pending, msgs, pendingMsgs>>

\* C37: a travel_chat or get_suggestions request without a session user, or
\* for a conversation of another user, ends with 401 or 404 before any call
\* of the model or of search_hotels (it has nothing to report) and leaves the
\* Conversations, Messages and Suggestions as they were
C37_DeniedChangesNothing ==
    [][/\ \A r \in Requests :
            (/\ r.user = "nobody" \/ Owner(r.c) # r.user
             /\ TravelChat(r.user, r.c, r.messages, r.hotel, r.reply))
            => /\ last'.status = (IF r.user = "nobody" THEN "401" ELSE "404")
               /\ last'.arg = <<>>
               /\ Stored' = Stored
       /\ \A user \in SessionUsers, c \in Convs :
            (/\ user = "nobody" \/ Owner(c) # user
             /\ GetSuggestions(user, c))
            => /\ last'.status = (IF user = "nobody" THEN "401" ELSE "404")
               /\ last'.arg = <<>>
               /\ Stored' = Stored]_vars

\* a user's request for the suggestions of another user's conversation,
\* refused with 404 while a turn's messages are stored
C37_Witness ==
    /\ last.op = "get_suggestions" /\ last.status = "404"
    /\ Len(msgs) >= 2

----------------------------------------------------------------------------
(* Claims on the branches of the tool loop                                 *)

====
